---- MODULE Spec2Model ----
(***************************************************************************)
(* Model of the ViralDeals pricing engine (src/pricing_algorithm.py).      *)
(*                                                                         *)
(* The engine is a pure calculation library.  Its only state is the        *)
(* cost-factor configuration fixed at construction; every other variable   *)
(* records the last call made on the engine and what that call returned.   *)
(*                                                                         *)
(* Numbers.  Python floats are modelled by exact rationals in fixed point. *)
(*   - markups and multipliers are kept in percent (0.60 is 60);           *)
(*   - a markup fraction is an integer numerator over MarkupDen = 20^4,    *)
(*     exact because every multiplier of the tables is a multiple of 1/20; *)
(*   - a money amount is a record [w, f] standing for (w + f/100) / Unit   *)
(*     rupees, Unit = MarkupDen * PriceScale, where a supplier price is a  *)
(*     whole number of 1/PriceScale rupee.  Every product and sum of the   *)
(*     pipeline is exact in this representation.                           *)
(***************************************************************************)
EXTENDS Integers, Sequences, FiniteSets

VARIABLES cost_factors, call, result

vars == <<cost_factors, call, result>>

(***************************************************************************)
(* Bounds of the model.                                                    *)
(***************************************************************************)
\* supplier prices are multiples of 1/PriceScale rupee
PriceScale == 2
\* largest supplier price given to calculate_price and get_base_markup, rupees
MaxSupplierRupees == 2100
\* largest raw price given to apply_psychological_pricing, rupees
MaxRawRupees == 3100
\* longest product list given to bulk_calculate
MaxProducts == 2
\* engines with other cost factors are given every ConfigPriceStride-th price
ConfigPriceStride == 25

(***************************************************************************)
(* Fixed-point arithmetic.                                                 *)
(***************************************************************************)
MarkupDen == 20 * 20 * 20 * 20
PercentDen == MarkupDen \div 100
Unit == MarkupDen * PriceScale

\* n rupees as a money amount
Rupees(n) == [w |-> n * Unit, f |-> 0]
\* p / PriceScale rupees as a money amount
Price(p) == [w |-> p * MarkupDen, f |-> 0]

MLt(a, b) == a.w < b.w \/ (a.w = b.w /\ a.f < b.f)
MLe(a, b) == a.w < b.w \/ (a.w = b.w /\ a.f <= b.f)
MAdd(a, b) ==
    [w |-> a.w + b.w + ((a.f + b.f) \div 100), f |-> (a.f + b.f) % 100]
\* a - b, which may be negative: w carries the sign and f stays in 0 .. 99
MSub(a, b) ==
    [w |-> a.w - b.w + ((a.f - b.f) \div 100), f |-> (a.f - b.f) % 100]
\* math.floor(a / n) for a whole number n of rupees
MFloorDiv(a, n) == a.w \div (n * Unit)
\* a * pct / 100, for an amount a with a.f = 0
MPercent(a, pct) ==
    [w |-> (a.w \div 100) * pct + (((a.w % 100) * pct) \div 100),
     f |-> ((a.w % 100) * pct) % 100]
\* a * (1 + n / MarkupDen), for an amount a that is a multiple of MarkupDen
MMarkup(a, n) == [w |-> (a.w \div MarkupDen) * (MarkupDen + n), f |-> 0]

(***************************************************************************)
(* Enumerations and tables.                                                *)
(***************************************************************************)
ProductCategory ==
    {"electronics", "fashion", "home_kitchen", "beauty", "sports", "books",
     "toys", "generic"}

CompetitionLevel == {"low", "medium", "high", "very_high"}

\* the dataclass defaults, rates in percent, packaging in rupees
CostFactors ==
    [payment_gateway_fee |-> 2, platform_fee |-> 3, packaging_cost |-> 10,
     returns_buffer |-> 3, gst_rate |-> 18]

\* (min_price, max_price, markup); unbounded stands for float('inf')
BASE_MARKUP_TIERS ==
    << [min_price |-> 100,  max_price |-> 299,  unbounded |-> FALSE, markup |-> 60],
       [min_price |-> 300,  max_price |-> 699,  unbounded |-> FALSE, markup |-> 45],
       [min_price |-> 700,  max_price |-> 1199, unbounded |-> FALSE, markup |-> 35],
       [min_price |-> 1200, max_price |-> 2000, unbounded |-> FALSE, markup |-> 25],
       [min_price |-> 2001, max_price |-> 2001, unbounded |-> TRUE,  markup |-> 20] >>

CATEGORY_ADJUSTMENTS ==
    [c \in ProductCategory |->
        CASE c = "electronics"  -> 85
          [] c = "fashion"      -> 115
          [] c = "home_kitchen" -> 100
          [] c = "beauty"       -> 120
          [] c = "sports"       -> 90
          [] c = "books"        -> 70
          [] c = "toys"         -> 110
          [] c = "generic"      -> 100]

COMPETITION_ADJUSTMENTS ==
    [c \in CompetitionLevel |->
        CASE c = "low"       -> 120
          [] c = "medium"    -> 100
          [] c = "high"      -> 85
          [] c = "very_high" -> 70]

(***************************************************************************)
(* get_base_markup: the first tier containing the price, else a fallback.  *)
(* Returns the markup in percent.                                          *)
(***************************************************************************)
InTier(t, supplier_price) ==
    /\ MLe(Rupees(t.min_price), supplier_price)
    /\ (t.unbounded \/ MLe(supplier_price, Rupees(t.max_price)))

RECURSIVE TierScan(_, _)
TierScan(i, supplier_price) ==
    IF i > Len(BASE_MARKUP_TIERS)
    THEN IF MLt(supplier_price, Rupees(100)) THEN 70 ELSE 15
    ELSE IF InTier(BASE_MARKUP_TIERS[i], supplier_price)
         THEN BASE_MARKUP_TIERS[i].markup
         ELSE TierScan(i + 1, supplier_price)

\* a variant of get_base_markup whose bands exclude their upper end
RECURSIVE TierScanExclusive(_, _)
TierScanExclusive(i, supplier_price) ==
    IF i > Len(BASE_MARKUP_TIERS)
    THEN IF MLt(supplier_price, Rupees(100)) THEN 70 ELSE 15
    ELSE IF /\ MLe(Rupees(BASE_MARKUP_TIERS[i].min_price), supplier_price)
            /\ \/ BASE_MARKUP_TIERS[i].unbounded
               \/ MLt(supplier_price, Rupees(BASE_MARKUP_TIERS[i].max_price))
         THEN BASE_MARKUP_TIERS[i].markup
         ELSE TierScanExclusive(i + 1, supplier_price)

get_base_markup_exclusive(supplier_price) == TierScanExclusive(1, supplier_price)

get_base_markup(supplier_price) == TierScan(1, supplier_price)

(***************************************************************************)
(* calculate_adjusted_markup: base markup (percent) to adjusted markup, a  *)
(* numerator over MarkupDen.  The product of four percentages is a         *)
(* numerator over 100^4; each factor is a multiple of 5, so dividing by    *)
(* 5^4 is exact.                                                           *)
(***************************************************************************)
Max(a, b) == IF a >= b THEN a ELSE b

\* a variant of calculate_adjusted_markup that forgets the 15% floor
calculate_adjusted_markup_unfloored(base_markup, category, competition, has_unique_value) ==
    (base_markup * CATEGORY_ADJUSTMENTS[category]
                 * COMPETITION_ADJUSTMENTS[competition]
                 * (IF has_unique_value THEN 115 ELSE 100))
    \div (5 * 5 * 5 * 5)

calculate_adjusted_markup(base_markup, category, competition, has_unique_value) ==
    LET adjusted_markup ==
            (base_markup * CATEGORY_ADJUSTMENTS[category]
                         * COMPETITION_ADJUSTMENTS[competition]
                         * (IF has_unique_value THEN 115 ELSE 100))
            \div (5 * 5 * 5 * 5)
    IN  Max(adjusted_markup, 15 * PercentDen)

(***************************************************************************)
(* calculate_total_costs: the five entries, each percentage entry taken    *)
(* off the selling price.                                                  *)
(***************************************************************************)
CostKeys ==
    {"payment_gateway", "platform_fee", "packaging", "returns_buffer", "gst"}

\* a variant of calculate_total_costs that takes GST off the supplier price
calculate_total_costs_gst_on_cost(cf, supplier_price, selling_price) ==
    [payment_gateway |-> MPercent(selling_price, cf.payment_gateway_fee),
     platform_fee    |-> MPercent(selling_price, cf.platform_fee),
     packaging       |-> Rupees(cf.packaging_cost),
     returns_buffer  |-> MPercent(selling_price, cf.returns_buffer),
     gst             |-> MPercent(supplier_price, cf.gst_rate)]

calculate_total_costs(cf, supplier_price, selling_price) ==
    [payment_gateway |-> MPercent(selling_price, cf.payment_gateway_fee),
     platform_fee    |-> MPercent(selling_price, cf.platform_fee),
     packaging       |-> Rupees(cf.packaging_cost),
     returns_buffer  |-> MPercent(selling_price, cf.returns_buffer),
     gst             |-> MPercent(selling_price, cf.gst_rate)]

\* sum(cost_breakdown.values()), in insertion order
SumCosts(costs) ==
    MAdd(MAdd(MAdd(MAdd(costs.payment_gateway, costs.platform_fee),
                   costs.packaging), costs.returns_buffer), costs.gst)

(***************************************************************************)
(* apply_psychological_pricing.                                            *)
(***************************************************************************)
\* a variant that ends prices under 100 with 9 below the ten, not above it
apply_psychological_pricing_nine_below(price) ==
    IF MLt(price, Rupees(100))
    THEN Rupees(MFloorDiv(price, 10) * 10 - 1)
    ELSE IF MLt(price, Rupees(1000))
    THEN Rupees(MFloorDiv(price, 100) * 100 + 99)
    ELSE LET hundreds == MFloorDiv(price, 100)
         IN  IF (hundreds % 10) < 5
             THEN Rupees(hundreds * 100 - 1)
             ELSE Rupees((hundreds - (hundreds % 10) + 4) * 100 + 99)

\* a variant that rounds prices from 100 to 999 up to the next hundred first
apply_psychological_pricing_next_hundred(price) ==
    IF MLt(price, Rupees(100))
    THEN Rupees(MFloorDiv(price, 10) * 10 + 9)
    ELSE IF MLt(price, Rupees(1000))
    THEN Rupees((MFloorDiv(price, 100) + 1) * 100 + 99)
    ELSE LET hundreds == MFloorDiv(price, 100)
         IN  IF (hundreds % 10) < 5
             THEN Rupees(hundreds * 100 - 1)
             ELSE Rupees((hundreds - (hundreds % 10) + 4) * 100 + 99)

\* a variant whose upper half-decade ends with the 999 below the decade
apply_psychological_pricing_decade_below(price) ==
    IF MLt(price, Rupees(100))
    THEN Rupees(MFloorDiv(price, 10) * 10 + 9)
    ELSE IF MLt(price, Rupees(1000))
    THEN Rupees(MFloorDiv(price, 100) * 100 + 99)
    ELSE LET hundreds == MFloorDiv(price, 100)
         IN  IF (hundreds % 10) < 5
             THEN Rupees(hundreds * 100 - 1)
             ELSE Rupees((hundreds - (hundreds % 10)) * 100 - 1)

apply_psychological_pricing(price) ==
    IF MLt(price, Rupees(100))
    THEN Rupees(MFloorDiv(price, 10) * 10 + 9)
    ELSE IF MLt(price, Rupees(1000))
    THEN Rupees(MFloorDiv(price, 100) * 100 + 99)
    ELSE LET hundreds == MFloorDiv(price, 100)
         IN  IF (hundreds % 10) < 5
             THEN Rupees(hundreds * 100 - 1)
             ELSE Rupees((hundreds - (hundreds % 10) + 4) * 100 + 99)

(***************************************************************************)
(* calculate_price: the pipeline.  adjusted_markup_percent is kept in      *)
(* units of 1/PercentDen percent.  profit_margin, 100 * profit /           *)
(* final_price, is kept as the pair of its numerator and denominator, and  *)
(* is 0 when final_price is not positive.                                  *)
(***************************************************************************)
calculate_price(cf, supplier_price, category, competition, has_unique_value, apply_psychological) ==
    LET base_markup == get_base_markup(supplier_price)
        adjusted_markup ==
            calculate_adjusted_markup(base_markup, category, competition,
                                      has_unique_value)
        selling_price == MMarkup(supplier_price, adjusted_markup)
        cost_breakdown == calculate_total_costs(cf, supplier_price, selling_price)
        total_additional_costs == SumCosts(cost_breakdown)
        adjusted_selling_price == MAdd(selling_price, total_additional_costs)
        final_price ==
            IF apply_psychological
            THEN apply_psychological_pricing(adjusted_selling_price)
            ELSE adjusted_selling_price
        profit ==
            MSub(MSub(final_price, supplier_price), total_additional_costs)
        profit_margin ==
            IF MLt(Rupees(0), final_price)
            THEN [profit |-> profit, final_price |-> final_price]
            ELSE [profit |-> Rupees(0), final_price |-> Rupees(1)]
    IN  [supplier_price          |-> supplier_price,
         base_markup_percent     |-> base_markup,
         adjusted_markup_percent |-> adjusted_markup,
         selling_price           |-> selling_price,
         final_price             |-> final_price,
         profit_margin           |-> profit_margin,
         cost_breakdown          |-> cost_breakdown]

(***************************************************************************)
(* bulk_calculate.  A product descriptor is a dict: a function whose       *)
(* domain holds "supplier_price" and any of the optional keys.             *)
(* ProductCategory(v) and CompetitionLevel(v) raise ValueError on a string *)
(* outside the enumeration; the exception leaves bulk_calculate, whose     *)
(* list of results is a local and is lost with it.                         *)
(***************************************************************************)
\* product.get(key, default)
Get(product, key, default) ==
    IF key \in DOMAIN product THEN product[key] ELSE default

RECURSIVE BulkLoop(_, _, _, _)
BulkLoop(cf, products, i, results) ==
    IF i > Len(products)
    THEN [raised |-> "none", value |-> results]
    ELSE LET product == products[i]
             category == Get(product, "category", "generic")
             competition == Get(product, "competition", "medium")
         IN  IF category \notin ProductCategory
                \/ competition \notin CompetitionLevel
             THEN [raised |-> "ValueError"]
             ELSE BulkLoop(cf, products, i + 1,
                           Append(results,
                                  calculate_price(cf, product.supplier_price,
                                      category, competition,
                                      Get(product, "has_unique_value", FALSE),
                                      TRUE)))

\* a variant of bulk_calculate that skips a descriptor it cannot resolve
RECURSIVE BulkLoopSkip(_, _, _, _)
BulkLoopSkip(cf, products, i, results) ==
    IF i > Len(products)
    THEN [raised |-> "none", value |-> results]
    ELSE LET product == products[i]
             category == Get(product, "category", "generic")
             competition == Get(product, "competition", "medium")
         IN  IF category \notin ProductCategory
                \/ competition \notin CompetitionLevel
             THEN BulkLoopSkip(cf, products, i + 1, results)
             ELSE BulkLoopSkip(cf, products, i + 1,
                               Append(results,
                                      calculate_price(cf, product.supplier_price,
                                          category, competition,
                                          Get(product, "has_unique_value", FALSE),
                                          TRUE)))

bulk_calculate_skip_bad(cf, products) == BulkLoopSkip(cf, products, 1, <<>>)

\* a variant of bulk_calculate that never passes has_unique_value on
RECURSIVE BulkLoopPlain(_, _, _, _)
BulkLoopPlain(cf, products, i, results) ==
    IF i > Len(products)
    THEN [raised |-> "none", value |-> results]
    ELSE LET product == products[i]
             category == Get(product, "category", "generic")
             competition == Get(product, "competition", "medium")
         IN  IF category \notin ProductCategory
                \/ competition \notin CompetitionLevel
             THEN [raised |-> "ValueError"]
             ELSE BulkLoopPlain(cf, products, i + 1,
                                Append(results,
                                       calculate_price(cf, product.supplier_price,
                                           category, competition, FALSE, TRUE)))

bulk_calculate_no_unique(cf, products) == BulkLoopPlain(cf, products, 1, <<>>)

bulk_calculate(cf, products) == BulkLoop(cf, products, 1, <<>>)

(***************************************************************************)
(* The engine as a state machine.  A behaviour is one engine serving one   *)
(* call: the initial state holds the engine's configuration and the call   *)
(* with its arguments, and the call's action sets result to what the call  *)
(* returns.  The engine keeps nothing between calls, so longer behaviours  *)
(* would only repeat these.                                                *)
(***************************************************************************)
SupplierPrices == 0 .. (MaxSupplierRupees * PriceScale)
RawPrices == 0 .. (MaxRawRupees * PriceScale)

\* the value of result while the call has not returned
Pending == [op |-> "pending"]

CalculatePriceCalls ==
    [op : {"calculate_price"}, supplier_price : {Price(p) : p \in SupplierPrices},
     category : ProductCategory, competition : CompetitionLevel,
     has_unique_value : BOOLEAN, apply_psychological : BOOLEAN]

GetBaseMarkupCalls ==
    [op : {"get_base_markup"}, supplier_price : {Price(p) : p \in SupplierPrices}]

PsychologicalCalls ==
    [op : {"apply_psychological_pricing"}, price : {Price(p) : p \in RawPrices}]

\* the strings a descriptor may carry; "luxury" and "extreme" are outside the
\* enumerations
CategoryStrings == {"beauty", "books", "luxury"}
CompetitionStrings == {"low", "very_high", "extreme"}
BulkPrices == {Rupees(150), Rupees(2500)}

Descriptors ==
    UNION { [supplier_price : BulkPrices],
            [supplier_price : BulkPrices, category : CategoryStrings],
            [supplier_price : BulkPrices, competition : CompetitionStrings],
            [supplier_price : BulkPrices, has_unique_value : {TRUE}],
            [supplier_price : BulkPrices, category : CategoryStrings,
             competition : CompetitionStrings],
            [supplier_price : BulkPrices, category : CategoryStrings,
             has_unique_value : {TRUE}],
            [supplier_price : BulkPrices, competition : CompetitionStrings,
             has_unique_value : {TRUE}],
            [supplier_price : BulkPrices, category : CategoryStrings,
             competition : CompetitionStrings, has_unique_value : {TRUE}] }

BulkCalls ==
    [op : {"bulk_calculate"},
     products : UNION { [1 .. n -> Descriptors] : n \in 0 .. MaxProducts }]

\* configurations an engine may be built with: every rate non-negative
CostFactorConfigs ==
    [payment_gateway_fee : {0, 2}, platform_fee : {0, 3},
     packaging_cost : {0, 10}, returns_buffer : {0, 3}, gst_rate : {0, 28}]

\* the prices given to those engines: the low ones, and one in every stride
ConfigPrices ==
    {p \in SupplierPrices : p <= 20 * PriceScale \/ p % ConfigPriceStride = 0}

ConfigCalls ==
    [op : {"calculate_price"}, supplier_price : {Price(p) : p \in ConfigPrices},
     category : ProductCategory, competition : CompetitionLevel,
     has_unique_value : BOOLEAN, apply_psychological : BOOLEAN]

\* an engine built with the default cost factors, about to serve one call
Init ==
    /\ cost_factors = CostFactors
    /\ call \in CalculatePriceCalls \cup GetBaseMarkupCalls
                \cup PsychologicalCalls \cup BulkCalls
    /\ result = Pending

CalculatePrice ==
    /\ call.op = "calculate_price"
    /\ result = Pending
    /\ result' = [op |-> "calculate_price",
                  value |-> calculate_price(cost_factors, call.supplier_price,
                                            call.category, call.competition,
                                            call.has_unique_value,
                                            call.apply_psychological)]
    /\ UNCHANGED <<cost_factors, call>>

GetBaseMarkup ==
    /\ call.op = "get_base_markup"
    /\ result = Pending
    /\ result' = [op |-> "get_base_markup",
                  value |-> get_base_markup(call.supplier_price)]
    /\ UNCHANGED <<cost_factors, call>>

ApplyPsychologicalPricing ==
    /\ call.op = "apply_psychological_pricing"
    /\ result = Pending
    /\ result' = [op |-> "apply_psychological_pricing",
                  value |-> apply_psychological_pricing(call.price)]
    /\ UNCHANGED <<cost_factors, call>>

BulkCalculate ==
    /\ call.op = "bulk_calculate"
    /\ result = Pending
    /\ result' = [op |-> "bulk_calculate",
                  outcome |-> bulk_calculate(cost_factors, call.products)]
    /\ UNCHANGED <<cost_factors, call>>

Next ==
    \/ CalculatePrice
    \/ GetBaseMarkup
    \/ ApplyPsychologicalPricing
    \/ BulkCalculate

Spec == Init /\ [][Next]_vars

\* an engine built with any of the configurations, about to serve one
\* calculate_price call
InitConfig ==
    /\ cost_factors \in CostFactorConfigs
    /\ call \in ConfigCalls
    /\ result = Pending

NextConfig == CalculatePrice

SpecConfig == InitConfig /\ [][NextConfig]_vars

(***************************************************************************)
(* Properties.                                                             *)
(***************************************************************************)
\* whole rupees of an amount, math.floor(a)
WholeRupees(a) == a.w \div Unit
\* a whole number lo..hi of rupees bounds the amount a, both ends included
Within(a, lo, hi) == MLe(Rupees(lo), a) /\ MLe(a, Rupees(hi))
Returned(op) == result.op = op

\* C1: the adjusted_markup_percent calculate_price returns is at least 15,
\* for every supplier price, category, competition level and uniqueness flag.
C1_AdjustedMarkupAtLeast15 ==
    Returned("calculate_price") =>
        result.value.adjusted_markup_percent >= 15 * PercentDen

\* the floor acts: 0.25 * 0.7 * 0.7 = 0.1225 is raised to 0.15
C1_Witness ==
    /\ Returned("calculate_price")
    /\ call.supplier_price = Rupees(1600)
    /\ call.category = "books"
    /\ call.competition = "very_high"
    /\ ~call.has_unique_value
    /\ result.value.adjusted_markup_percent = 15 * PercentDen

\* C2 as stated: applying apply_psychological_pricing to its own result
\* changes nothing, for every price >= 0.
C2_Idempotent ==
    Returned("apply_psychological_pricing") =>
        apply_psychological_pricing(result.value) = result.value

\* C2 amended: applying apply_psychological_pricing to its own result changes
\* nothing for every price 0 <= p < 1100, and gives a strictly lower price
\* for every price p >= 1100.
C2_IdempotentBelow1100 ==
    Returned("apply_psychological_pricing") =>
        IF MLt(call.price, Rupees(1100))
        THEN apply_psychological_pricing(result.value) = result.value
        ELSE MLt(apply_psychological_pricing(result.value), result.value)

\* a price of the third band on which the second application changes nothing
C2_Witness ==
    /\ Returned("apply_psychological_pricing")
    /\ MLe(Rupees(1000), call.price)
    /\ result.value = Rupees(999)
    /\ apply_psychological_pricing(result.value) = result.value

\* the markup of the band the claim gives for a price, in percent
BandOk(price, markup) ==
    /\ Within(price, 100, 299) => markup = 60
    /\ Within(price, 300, 699) => markup = 45
    /\ Within(price, 700, 1199) => markup = 35
    /\ Within(price, 1200, 2000) => markup = 25
    /\ MLe(Rupees(2001), price) => markup = 20

\* C3: get_base_markup gives 60% on [100, 299], 45% on [300, 699], 35% on
\* [700, 1199], 25% on [1200, 2000] and 20% from 2001 on, both band ends
\* included, and calculate_price reports that value as base_markup_percent
\* whatever the category, competition, uniqueness and rounding flag.
C3_BandsInclusive ==
    /\ Returned("get_base_markup") => BandOk(call.supplier_price, result.value)
    /\ Returned("calculate_price") =>
           /\ BandOk(call.supplier_price, result.value.base_markup_percent)
           /\ result.value.base_markup_percent
                  = get_base_markup(call.supplier_price)

\* the upper end of a band, under adjustments that are not the defaults
C3_Witness ==
    /\ Returned("calculate_price")
    /\ call.supplier_price = Rupees(2000)
    /\ call.category = "beauty"
    /\ call.competition = "low"
    /\ call.has_unique_value
    /\ ~call.apply_psychological
    /\ result.value.base_markup_percent = 25

\* C4: get_base_markup never takes the 0.15 fallback: every price >= 100,
\* whole or fractional, gets one of the five band markups, and every price
\* below 100 gets 0.70.
C4_FallbackUnreachable ==
    Returned("get_base_markup") =>
        IF MLt(call.supplier_price, Rupees(100))
        THEN result.value = 70
        ELSE result.value \in {60, 45, 35, 25, 20}

WellFormed(product) ==
    /\ Get(product, "category", "generic") \in ProductCategory
    /\ Get(product, "competition", "medium") \in CompetitionLevel

\* C5: on n well-formed descriptors bulk_calculate returns n results in
\* input order, the i-th being calculate_price of the i-th descriptor's
\* price, category (default generic), competition (default medium) and
\* has_unique_value (default false), with psychological rounding on.
C5_BulkMatchesSingle ==
    (Returned("bulk_calculate")
        /\ \A i \in DOMAIN call.products : WellFormed(call.products[i])) =>
        /\ result.outcome.raised = "none"
        /\ Len(result.outcome.value) = Len(call.products)
        /\ \A i \in DOMAIN call.products :
               result.outcome.value[i] =
                   calculate_price(cost_factors,
                       call.products[i].supplier_price,
                       Get(call.products[i], "category", "generic"),
                       Get(call.products[i], "competition", "medium"),
                       Get(call.products[i], "has_unique_value", FALSE),
                       TRUE)

\* two different descriptors, one with defaults and one with every field
C5_Witness ==
    /\ Returned("bulk_calculate")
    /\ Len(call.products) = 2
    /\ DOMAIN call.products[1] = {"supplier_price"}
    /\ call.products[1].supplier_price = Rupees(2500)
    /\ DOMAIN call.products[2] =
           {"supplier_price", "category", "competition", "has_unique_value"}
    /\ call.products[2].supplier_price = Rupees(150)
    /\ WellFormed(call.products[2])
    /\ result.outcome.raised = "none"
    /\ Len(result.outcome.value) = 2
    /\ result.outcome.value[1] # result.outcome.value[2]

\* C6: when a descriptor carries a category or competition string outside
\* the enumerations, bulk_calculate fails as a whole: it raises, and returns
\* no result, not even for the valid descriptors before the bad one.
C6_BadStringFailsWholeCall ==
    (Returned("bulk_calculate")
        /\ \E i \in DOMAIN call.products : ~WellFormed(call.products[i])) =>
        /\ result.outcome.raised = "ValueError"
        /\ "value" \notin DOMAIN result.outcome

\* a valid descriptor followed by one of category "luxury"
C6_Witness ==
    /\ Returned("bulk_calculate")
    /\ Len(call.products) = 2
    /\ WellFormed(call.products[1])
    /\ "category" \in DOMAIN call.products[2]
    /\ call.products[2].category = "luxury"
    /\ result.outcome.raised = "ValueError"

\* C7: with apply_psychological = false, final_price is selling_price plus
\* the sum of the cost_breakdown entries, selling_price is supplier_price
\* times (1 + adjusted markup), and cost_breakdown has exactly the five
\* entries, each percentage entry being selling_price times its own rate and
\* packaging the fixed packaging cost.
C7_UnroundedFinalIsSellingPlusCosts ==
    (Returned("calculate_price") /\ ~call.apply_psychological) =>
        LET v == result.value
            c == v.cost_breakdown
        IN  /\ v.selling_price
                   = MMarkup(call.supplier_price, v.adjusted_markup_percent)
            /\ DOMAIN c = CostKeys
            /\ c.payment_gateway
                   = MPercent(v.selling_price, cost_factors.payment_gateway_fee)
            /\ c.platform_fee
                   = MPercent(v.selling_price, cost_factors.platform_fee)
            /\ c.packaging = Rupees(cost_factors.packaging_cost)
            /\ c.returns_buffer
                   = MPercent(v.selling_price, cost_factors.returns_buffer)
            /\ c.gst = MPercent(v.selling_price, cost_factors.gst_rate)
            /\ v.final_price
                   = MAdd(v.selling_price,
                          MAdd(c.gst,
                               MAdd(c.returns_buffer,
                                    MAdd(c.packaging,
                                         MAdd(c.platform_fee,
                                              c.payment_gateway)))))

\* an unrounded final price that rounding would have changed
C7_Witness ==
    /\ Returned("calculate_price")
    /\ ~call.apply_psychological
    /\ call.supplier_price = Rupees(150)
    /\ call.category = "generic"
    /\ call.competition = "medium"
    /\ ~call.has_unique_value
    /\ result.value.selling_price = Rupees(240)
    /\ apply_psychological_pricing(result.value.final_price)
           # result.value.final_price

\* C8: for every supplier_price > 0, whatever the category, competition,
\* uniqueness and rounding flag, and for every configuration of non-negative
\* cost factors, the final_price of calculate_price is greater than 0.
C8_FinalPricePositive ==
    (Returned("calculate_price") /\ MLt(Rupees(0), call.supplier_price)) =>
        MLt(Rupees(0), result.value.final_price)

\* the lowest price with every cost factor 0: the final price is 9
C8_Witness ==
    /\ Returned("calculate_price")
    /\ \A k \in DOMAIN cost_factors : cost_factors[k] = 0
    /\ call.supplier_price = Price(1)
    /\ call.apply_psychological
    /\ result.value.final_price = Rupees(9)

\* C9: for every price >= 1000, apply_psychological_pricing returns a price
\* ending with 999 when floor(price / 100) mod 10 < 5, and ending with 499
\* otherwise.
C9_EndsWith999Or499 ==
    (Returned("apply_psychological_pricing") /\ MLe(Rupees(1000), call.price)) =>
        /\ result.value.w % Unit = 0
        /\ result.value.f = 0
        /\ WholeRupees(result.value) % 1000 =
               (IF (MFloorDiv(call.price, 100) % 10) < 5 THEN 999 ELSE 499)

\* C10: with the default cost factors and psychological rounding on,
\* final_price > supplier_price for every supplier_price > 0, whatever the
\* category, competition level and uniqueness flag.
C10_NeverBelowCost ==
    (Returned("calculate_price")
        /\ cost_factors = CostFactors
        /\ call.apply_psychological
        /\ MLt(Rupees(0), call.supplier_price)) =>
        MLt(call.supplier_price, result.value.final_price)

\* a raw price that the rounding step lowered by more than 400
C10_Witness ==
    /\ Returned("calculate_price")
    /\ cost_factors = CostFactors
    /\ call.apply_psychological
    /\ MLt(Rupees(0), call.supplier_price)
    /\ MLt(MAdd(result.value.final_price, Rupees(400)),
           MAdd(result.value.selling_price,
                SumCosts(result.value.cost_breakdown)))
    /\ MLt(call.supplier_price, result.value.final_price)

====
